---- MODULE Spec2Model ----
(***************************************************************************)
(* MnistDataset: the IDX record-file decoders (loadHeaderValues,           *)
(* loadImages, loadLabels), the four-way concurrent loadData and the       *)
(* batch assembly getData_ (getTrainData / getTestData).                   *)
(*                                                                         *)
(* Conventions.  A Buffer is a sequence of bytes; the code's 0-based       *)
(* offset k is element k+1.  A Float32Array element is its IEEE-754        *)
(* single-precision bit pattern (a natural number below 2^31: every value  *)
(* here is non-negative).  A call that may throw returns a record          *)
(* [threw, error, value].                                                  *)
(*                                                                         *)
(* The arrays a load produces are never written after they are built, so   *)
(* the state keeps each of them as a reference (ArrayRef) to the fetch it  *)
(* was decoded from; Arr gives the contents, computed by loadImages /      *)
(* loadLabels from the bytes that fetch returned.                          *)
(***************************************************************************)
EXTENDS Integers, Sequences, FiniteSets, TLC

\* ------------------------------------------------------------ bounds

\* Records in the largest file served, or buffer decoded.
MaxRecords == 2
\* loadData calls made over the lifetime of the MnistDataset; they may overlap.
MaxCalls == 2
\* Pixel patterns of the buffers given to loadImages on its own.
MaxSeed == 2

\* --------------------------------------------------- program constants

IMAGE_HEIGHT == 28
IMAGE_WIDTH == 28
IMAGE_HEADER_BYTES == 16
IMAGE_FLAT_SIZE == IMAGE_HEIGHT * IMAGE_WIDTH
LABEL_HEADER_BYTES == 8
LABEL_RECORD_BYTE == 1
LABEL_FLAT_SIZE == 10

\* The four resources loadData fetches (BASE_URL followed by the file name),
\* in the order of its Promise.all.
BASE_URL == "/data"
TRAIN_IMAGES_FILE == "/data/train-images-idx3-ubyte.gz"
TRAIN_LABELS_FILE == "/data/train-labels-idx1-ubyte.gz"
TEST_IMAGES_FILE == "/data/t10k-images-idx3-ubyte.gz"
TEST_LABELS_FILE == "/data/t10k-labels-idx1-ubyte.gz"

\* ------------------------------------------------------- results, errors

Return(v) == [threw |-> FALSE, error |-> "", value |-> v]
Throw(e) == [threw |-> TRUE, error |-> e, value |-> <<>>]

\* ------------------------------------------------------------- numbers

RECURSIVE Pow2(_)
Pow2(n) == IF n = 0 THEN 1 ELSE 2 * Pow2(n - 1)

\* Smallest n >= 0 with num * 2^n >= den (num > 0): num/den lies in
\* [2^-n, 2^(1-n)).
RECURSIVE NormShift(_, _, _)
NormShift(num, den, n) == IF num >= den THEN n ELSE NormShift(2 * num, den, n + 1)

\* Binary long division: `bits` more quotient bits of rem/den after quotient q.
RECURSIVE LongDiv(_, _, _, _)
LongDiv(q, rem, den, bits) ==
    IF bits = 0 THEN <<q, rem>>
    ELSE LET r2 == 2 * rem
             b == IF r2 >= den THEN 1 ELSE 0
         IN LongDiv(2 * q + b, r2 - b * den, den, bits - 1)

\* The bit pattern of the single-precision value nearest to num/den (round to
\* nearest, ties to even), for 0 <= num <= den and 0 < den: what storing the
\* double num/den into a Float32Array element leaves there.
Float32(num, den) ==
    IF num = 0 THEN 0
    ELSE LET n == NormShift(num, den, 0)
             scaled == num * Pow2(n)
             qr == LongDiv(1, scaled - den, den, 23)
             q == qr[1]
             r == qr[2]
             up == (2 * r > den) \/ (2 * r = den /\ q % 2 = 1)
             m == IF up THEN q + 1 ELSE q
         IN (127 - n) * Pow2(23) + (m - Pow2(23))

\* Pixel normalisation, byte / 255.0 stored into a Float32Array element.
Normalize == [b \in 0..255 |-> Float32(b, 255)]

\* -------------------------------------------------------------- Buffer

\* Variant: a read past the end is not checked and yields 0 (noAssert).
readUInt8NoAssert(buffer, offset) ==
    IF offset >= 0 /\ offset + 1 <= Len(buffer)
    THEN Return(buffer[offset + 1])
    ELSE Return(0)

readUInt8(buffer, offset) ==
    IF offset >= 0 /\ offset + 1 <= Len(buffer)
    THEN Return(buffer[offset + 1])
    ELSE Throw("RangeError")

\* Big-endian; the value is kept as its four bytes' number when it fits.
readUInt32BE(buffer, offset) ==
    IF offset >= 0 /\ offset + 4 <= Len(buffer)
    THEN Return(((buffer[offset + 1] * 256 + buffer[offset + 2]) * 256
                 + buffer[offset + 3]) * 256 + buffer[offset + 4])
    ELSE Throw("RangeError")

\* ------------------------------------------------------------ decoders

\* The loop runs while i < headerLength / 4, a real quotient: one read for
\* every started group of four bytes.
loadHeaderValues(buffer, headerLength) ==
    LET n == IF headerLength > 0 THEN (headerLength + 3) \div 4 ELSE 0
        reads == [i \in 1..n |-> readUInt32BE(buffer, (i - 1) * 4)]
    IN IF \E i \in 1..n : reads[i].threw
       THEN Throw("RangeError")
       ELSE Return([i \in 1..n |-> reads[i].value])

\* One record of recordBytes bytes read at index, each through readUInt8.
ReadImageRecord(buffer, index, recordBytes) ==
    LET reads == [i \in 1..recordBytes |-> readUInt8(buffer, index + i - 1)]
    IN IF \E i \in 1..recordBytes : reads[i].threw
       THEN Throw("RangeError")
       ELSE Return([i \in 1..recordBytes |-> Normalize[reads[i].value]])

RECURSIVE ImagesLoop(_, _, _, _)
ImagesLoop(buffer, index, recordBytes, images) ==
    IF index < Len(buffer)
    THEN LET rec == ReadImageRecord(buffer, index, recordBytes)
         IN IF rec.threw THEN rec
            ELSE ImagesLoop(buffer, index + recordBytes, recordBytes,
                            Append(images, rec.value))
    ELSE Return(images)

\* Variant: the loop runs for the record count the header declares.
loadImagesByHeader(buffer) ==
    LET headerValues == loadHeaderValues(buffer, IMAGE_HEADER_BYTES)
        Rec(r) == ReadImageRecord(buffer, IMAGE_HEADER_BYTES + (r - 1) * IMAGE_FLAT_SIZE,
                                  IMAGE_FLAT_SIZE)
    IN IF headerValues.threw THEN headerValues
       ELSE IF \E r \in 1..headerValues.value[2] : Rec(r).threw
       THEN Throw("RangeError")
       ELSE Return([r \in 1..headerValues.value[2] |-> Rec(r).value])

\* loadImages after its fetch: buffer is what fetchResource returned.
loadImages(buffer) ==
    LET headerBytes == IMAGE_HEADER_BYTES
        recordBytes == IMAGE_FLAT_SIZE
        headerValues == loadHeaderValues(buffer, headerBytes)
    IN IF headerValues.threw THEN headerValues
       ELSE ImagesLoop(buffer, headerBytes, recordBytes, <<>>)

ReadLabelRecord(buffer, index, recordBytes) ==
    LET reads == [i \in 1..recordBytes |-> readUInt8(buffer, index + i - 1)]
    IN IF \E i \in 1..recordBytes : reads[i].threw
       THEN Throw("RangeError")
       ELSE Return([i \in 1..recordBytes |-> reads[i].value])

RECURSIVE LabelsLoop(_, _, _, _)
LabelsLoop(buffer, index, recordBytes, labels) ==
    IF index < Len(buffer)
    THEN LET rec == ReadLabelRecord(buffer, index, recordBytes)
         IN IF rec.threw THEN rec
            ELSE LabelsLoop(buffer, index + recordBytes, recordBytes,
                            Append(labels, rec.value))
    ELSE Return(labels)

\* loadLabels after its fetch.
loadLabels(buffer) ==
    LET headerBytes == LABEL_HEADER_BYTES
        recordBytes == LABEL_RECORD_BYTE
        headerValues == loadHeaderValues(buffer, headerBytes)
    IN IF headerValues.threw THEN headerValues
       ELSE LabelsLoop(buffer, headerBytes, recordBytes, <<>>)

\* --------------------------------------------------------- the server

\* n as four big-endian bytes (a header field of a served file).
UInt32BE(n) ==
    <<(n \div 16777216) % 256, (n \div 65536) % 256, (n \div 256) % 256, n % 256>>

\* An IDX image file: magic 2051, the declared record count, the two
\* dimensions, then nbytes pixel bytes (every byte value from 0 to 255 occurs
\* once nbytes >= 256).
ImageFile(declared, nbytes, seed) ==
    UInt32BE(2051) \o UInt32BE(declared) \o UInt32BE(IMAGE_HEIGHT)
        \o UInt32BE(IMAGE_WIDTH) \o [p \in 1..nbytes |-> (seed + 37 * p) % 256]

\* An IDX label file: magic 2049, the declared count, one byte per label.
LabelFile(declared, labels) ==
    UInt32BE(2049) \o UInt32BE(declared) \o labels

URLS == <<TRAIN_IMAGES_FILE, TRAIN_LABELS_FILE, TEST_IMAGES_FILE, TEST_LABELS_FILE>>
Slots == 1..4
ImageSlots == {1, 3}

\* What the server holds behind the four URLs, version after version.
\*  1: train well formed (the header declares more records than the file has);
\*     test has one record whose label byte is 10.
\*  2: train has one label more than images; test has one image more than
\*     labels; the labels include 0 and 9.
\*  3: train images end in a partial record; the test image file is cut inside
\*     its header; the test label file has no record.
Served ==
    LET K == MaxRecords
    IN << << ImageFile(K + 3, IMAGE_FLAT_SIZE * K, 1),
             LabelFile(K, [r \in 1..K |-> (3 + 4 * (r - 1)) % 10]),
             ImageFile(1, IMAGE_FLAT_SIZE, 5),
             LabelFile(1, <<10>>) >>,
          << ImageFile(K - 1, IMAGE_FLAT_SIZE * (K - 1), 2),
             LabelFile(K, [r \in 1..K |-> IF r % 2 = 1 THEN 9 ELSE 0]),
             ImageFile(K, IMAGE_FLAT_SIZE * K, 3),
             LabelFile(K - 1, [r \in 1..(K - 1) |-> r % 10]) >>,
          << ImageFile(K, IMAGE_FLAT_SIZE * K + 5, 4),
             LabelFile(K, [r \in 1..K |-> (r + 4) % 10]),
             <<0, 0, 8, 3, 0, 0>>,
             LabelFile(0, <<>>) >> >>

Versions == 1..Len(Served)

\* fetchResource(url, true) of slot u while the server is at version v, then
\* the decoder of that slot: what loadImages / loadLabels settle with when the
\* fetch itself succeeds.
Decoded ==
    [v \in Versions |->
        [u \in Slots |->
            IF u \in ImageSlots THEN loadImages(Served[v][u])
                                ELSE loadLabels(Served[v][u])]]

\* ------------------------------------------------------ array references

\* The array a successful load of slot u at version v returned; EmptyRef is
\* an array literal [] of the constructor.
EmptyRef == <<0, 0>>
ArrayRefs == {EmptyRef} \cup {<<u, v>> : u \in Slots, v \in Versions}

Arr ==
    [r \in ArrayRefs |->
        IF r = EmptyRef \/ Decoded[r[2]][r[1]].threw THEN <<>>
        ELSE Decoded[r[2]][r[1]].value]

\* ------------------------------------------------------------------- tf

sizeFromShape(shape) ==
    IF Len(shape) = 0 THEN 1
    ELSE LET RECURSIVE Prod(_)
             Prod(i) == IF i > Len(shape) THEN 1 ELSE shape[i] * Prod(i + 1)
         IN Prod(1)

\* tf.tensor4d / tf.tensor1d over a flat typed array.
tensor(values, shape) == [shape |-> shape, values |-> values]

\* tf.oneHot(indices, depth): onValue 1 where the column equals the index,
\* offValue 0 elsewhere; an index outside [0, depth) matches no column.
oneHot(indices, depth) ==
    LET n == Len(indices.values)
    IN tensor([p \in 1..(n * depth) |->
                  IF indices.values[((p - 1) \div depth) + 1] = (p - 1) % depth
                  THEN 1 ELSE 0],
              <<n, depth>>)

\* Tensor.toFloat() of an int32 tensor of zeros and ones.
toFloat(t) == tensor([p \in 1..Len(t.values) |-> Float32(t.values[p], 1)], t.shape)

\* ------------------------------------------------------------- getData_

\* The body of getData_ once imagesIndex / labelsIndex are chosen: imgs and
\* lbls are this.dataset[imagesIndex] and this.dataset[labelsIndex].
\* TypedArray.prototype.set(undefined, offset) throws a TypeError, which is
\* what labels.set gets when lbls has no element i.
getDataOf(imgs, lbls) ==
    LET size == Len(imgs)
        imagesShape == <<size, IMAGE_HEIGHT, IMAGE_WIDTH, 1>>
        nImages == sizeFromShape(imagesShape)
        nLabels == sizeFromShape(<<size, 1>>)
        images == [p \in 1..nImages |->
                      imgs[((p - 1) \div IMAGE_FLAT_SIZE) + 1][((p - 1) % IMAGE_FLAT_SIZE) + 1]]
        labels == [p \in 1..nLabels |-> lbls[p][1]]
    IN IF \E i \in 1..size : i > Len(lbls)
       THEN Throw("TypeError")
       ELSE Return([xs |-> tensor(images, imagesShape),
                    ys |-> toFloat(oneHot(tensor(labels, <<nLabels>>), LABEL_FLAT_SIZE))])

\* The result of getData_ for every pair of arrays this.dataset can hold at
\* an images index and a labels index.
ImageRefs == {r \in ArrayRefs : r = EmptyRef \/ r[1] \in ImageSlots}
LabelRefs == {r \in ArrayRefs : r = EmptyRef \/ r[1] \notin ImageSlots}
DataOf == [i \in ImageRefs |-> [l \in LabelRefs |-> getDataOf(Arr[i], Arr[l])]]

\* Variant: the call also advances the split's batch index.
getData_Advancing(self, isTrainingData) ==
    LET imagesIndex == IF isTrainingData THEN 1 ELSE 3
        labelsIndex == IF isTrainingData THEN 2 ELSE 4
    IN [self |-> IF isTrainingData
                 THEN [self EXCEPT !.trainBatchIndex = (@ + 1) % 4]
                 ELSE [self EXCEPT !.testBatchIndex = (@ + 1) % 4],
        ret |-> DataOf[self.dataset[imagesIndex]][self.dataset[labelsIndex]]]

getData_(self, isTrainingData) ==
    LET imagesIndex == IF isTrainingData THEN 1 ELSE 3
        labelsIndex == IF isTrainingData THEN 2 ELSE 4
    IN [self |-> self,
        ret |-> DataOf[self.dataset[imagesIndex]][self.dataset[labelsIndex]]]

getTrainData(self) == getData_(self, TRUE)

getTestData(self) == getData_(self, FALSE)

\* ------------------------------------------------------------- loadData

\* new MnistDataset()
MnistDataset ==
    [dataset |-> <<EmptyRef, EmptyRef, EmptyRef, EmptyRef>>,
     trainSize |-> 0, testSize |-> 0,
     trainBatchIndex |-> 0, testBatchIndex |-> 0]

\* The promise of one loadImages / loadLabels call.  A rejected promise
\* records whether another load of the same loadData call had rejected before
\* it (late): Promise.all's reactions run in the order the loads settled.
PendingLoad == [st |-> "pending", ref |-> EmptyRef, error |-> "", late |-> FALSE]
FulfilledLoad(r) == [st |-> "fulfilled", ref |-> r, error |-> "", late |-> FALSE]
RejectedLoad(e, late) == [st |-> "rejected", ref |-> EmptyRef, error |-> e, late |-> late]

\* Load u of a loadData call that fetches version v: the fetch fails, or the
\* decoder runs on the bytes and returns or throws.
SettleLoad(v, u, fetched, late) ==
    IF ~fetched THEN RejectedLoad("FetchError", late)
    ELSE IF Decoded[v][u].threw THEN RejectedLoad(Decoded[v][u].error, late)
    ELSE FulfilledLoad(<<u, v>>)

\* Variant: every load's failure is caught and replaced by [], so the join
\* waits for all four and always fulfils.
PromiseAllSettled(loads) ==
    IF \A i \in Slots : loads[i].st # "pending"
    THEN [st |-> "fulfilled", values |-> [i \in Slots |-> loads[i].ref],
          error |-> "", slot |-> 0]
    ELSE [st |-> "pending", values |-> <<>>, error |-> "", slot |-> 0]

\* Promise.all over the four loads: rejected once one is, with the reason
\* of the load that rejected first; fulfilled with the four values once all
\* four are.
PromiseAll(loads) ==
    IF \E i \in Slots : loads[i].st = "rejected"
    THEN LET i == CHOOSE j \in Slots : loads[j].st = "rejected" /\ ~loads[j].late
         IN [st |-> "rejected", values |-> <<>>, error |-> loads[i].error, slot |-> i]
    ELSE IF \A i \in Slots : loads[i].st = "fulfilled"
    THEN [st |-> "fulfilled", values |-> [i \in Slots |-> loads[i].ref],
          error |-> "", slot |-> 0]
    ELSE [st |-> "pending", values |-> <<>>, error |-> "", slot |-> 0]

\* Variant: only the two image collections are replaced.
loadDataImagesOnly(self, all) ==
    IF all.st = "fulfilled"
    THEN [self EXCEPT !.dataset = <<all.values[1], self.dataset[2],
                                    all.values[3], self.dataset[4]>>,
                      !.trainSize = Len(Arr[all.values[1]]),
                      !.testSize = Len(Arr[all.values[3]])]
    ELSE self

\* Variant: the sizes are taken from the label collections.
loadDataSizesFromLabels(self, all) ==
    IF all.st = "fulfilled"
    THEN [self EXCEPT !.dataset = all.values,
                      !.trainSize = Len(Arr[all.values[2]]),
                      !.testSize = Len(Arr[all.values[4]])]
    ELSE self

\* loadData from its await on: the three assignments when Promise.all
\* fulfilled; nothing when it rejected (the await throws).
loadData(self, all) ==
    IF all.st = "fulfilled"
    THEN LET withData == [self EXCEPT !.dataset = all.values]
             withTrain == [withData EXCEPT !.trainSize = Len(Arr[withData.dataset[1]])]
         IN [withTrain EXCEPT !.testSize = Len(Arr[withTrain.dataset[3]])]
    ELSE self

\* ---------------------------------------------------------------- state

VARIABLES
    this,    \* the MnistDataset object
    calls,   \* the loadData calls: position, fetched version, the four loads,
             \* Promise.all's outcome
    server,  \* the version of the files the server holds now
    ret      \* what the step just taken returned to its caller

vars == <<this, calls, server, ret>>

Calls == 1..MaxCalls

NoLoads == [i \in Slots |-> PendingLoad]
PendingAll == [st |-> "pending", values |-> <<>>, error |-> "", slot |-> 0]
IdleCall == [pc |-> "idle", src |-> 0, loads |-> NoLoads, all |-> PendingAll]
NoRet == [op |-> "", out |-> Return(<<>>)]

Init ==
    /\ this = MnistDataset
    /\ calls = [c \in Calls |-> IdleCall]
    /\ server = 1
    /\ ret = NoRet

\* The files behind the URLs are replaced by the next version.
Publish ==
    /\ server < Len(Served)
    /\ server' = server + 1
    /\ ret' = NoRet
    /\ UNCHANGED <<this, calls>>

\* loadData() up to its await: the four loads are started, each fetching the
\* version the server holds now.  Calls are numbered in the order they start.
CallLoadData(c) ==
    /\ calls[c].pc = "idle"
    /\ \A d \in Calls : d < c => calls[d].pc # "idle"
    /\ calls' = [calls EXCEPT ![c] = [IdleCall EXCEPT !.pc = "loading", !.src = server]]
    /\ ret' = NoRet
    /\ UNCHANGED <<this, server>>

\* Variant of LoadSettles: each load's result is assigned to its place in
\* this.dataset as soon as it arrives (four awaits, one after the other).
LoadSettlesEager(c, u, fetched) ==
    /\ calls[c].pc = "loading"
    /\ calls[c].loads[u].st = "pending"
    /\ LET late == \E w \in Slots : calls[c].loads[w].st = "rejected"
           one == SettleLoad(calls[c].src, u, fetched, late)
           stored == IF one.st = "fulfilled"
                     THEN [this EXCEPT !.dataset[u] = one.ref]
                     ELSE this
       IN /\ this' = [stored EXCEPT !.trainSize = Len(Arr[stored.dataset[1]]),
                                    !.testSize = Len(Arr[stored.dataset[3]])]
          /\ calls' = [calls EXCEPT ![c].loads[u] = one]
    /\ ret' = NoRet
    /\ UNCHANGED server

\* One load of call c settles: loadImages / loadLabels resumes after its
\* await of the fetch, which has resolved or failed, runs the decoder and
\* returns or throws.  Only the load's own promise changes: Promise.all has
\* not reacted yet, and this is not touched.
LoadSettles(c, u, fetched) ==
    /\ calls[c].pc = "loading"
    /\ calls[c].loads[u].st = "pending"
    /\ LET late == \E w \in Slots : calls[c].loads[w].st = "rejected"
       IN calls' = [calls EXCEPT ![c].loads[u] =
                        SettleLoad(calls[c].src, u, fetched, late)]
    /\ ret' = NoRet
    /\ UNCHANGED <<this, server>>

\* Promise.all of call c reacts, in a later microtask, to the loads that have
\* settled: it rejects on the first rejected load, or fulfils once all four
\* are fulfilled.  The call then waits, at "settled", for loadData to resume,
\* and the four load promises are dropped: Promise.all holds the outcome and
\* nothing reads them again (a load of the call that settles later changes
\* nothing).
PromiseAllReacts(c) ==
    /\ calls[c].pc = "loading"
    /\ PromiseAll(calls[c].loads).st # "pending"
    /\ calls' = [calls EXCEPT ![c] = [@ EXCEPT !.pc = "settled", !.loads = NoLoads,
                                                !.all = PromiseAll(calls[c].loads)]]
    /\ ret' = NoRet
    /\ UNCHANGED <<this, server>>

\* loadData resumes after its await, in a later microtask than the one that
\* settled Promise.all: reads, and steps of other calls, may come in between.
\* The three assignments run without suspension; the call's promise then
\* fulfils, or rejects with Promise.all's reason.
LoadDataResumes(c) ==
    /\ calls[c].pc = "settled"
    /\ this' = loadData(this, calls[c].all)
    /\ calls' = [calls EXCEPT ![c].pc = calls[c].all.st]
    /\ ret' = NoRet
    /\ UNCHANGED server

CallGetTrainData ==
    LET o == getTrainData(this)
    IN /\ this' = o.self
       /\ ret' = [op |-> "getTrainData", out |-> o.ret]
       /\ UNCHANGED <<calls, server>>

CallGetTestData ==
    LET o == getTestData(this)
    IN /\ this' = o.self
       /\ ret' = [op |-> "getTestData", out |-> o.ret]
       /\ UNCHANGED <<calls, server>>

Next ==
    \/ Publish
    \/ \E c \in Calls : CallLoadData(c)
    \/ \E c \in Calls, u \in Slots, fetched \in BOOLEAN : LoadSettles(c, u, fetched)
    \/ \E c \in Calls : PromiseAllReacts(c)
    \/ \E c \in Calls : LoadDataResumes(c)
    \/ CallGetTrainData
    \/ CallGetTestData

Spec == Init /\ [][Next]_vars

\* ------------------------------------------------- loadImages on its own

\* Lengths of the buffers given to loadImages: no bytes, a cut header, the
\* header alone, whole records, and records with a byte missing or five more.
BufferLengths ==
    {0, 6, IMAGE_HEADER_BYTES}
        \cup {IMAGE_HEADER_BYTES + IMAGE_FLAT_SIZE * k + d :
                  k \in 0..(MaxRecords - 1), d \in {5, IMAGE_FLAT_SIZE - 1, IMAGE_FLAT_SIZE}}

\* What fetchResource may return for an image file: the first n bytes of an
\* IDX image file, whose header declares any count.
ImageBuffers ==
    {SubSeq(ImageFile(declared, MaxRecords * IMAGE_FLAT_SIZE, seed), 1, n) :
        declared \in 0..(MaxRecords + 1), seed \in 0..MaxSeed, n \in BufferLengths}

\* The object is not involved; ret holds the buffer that the fetch returns.
InitLoadImages ==
    /\ this = MnistDataset
    /\ calls = [c \in Calls |-> IdleCall]
    /\ server = 1
    /\ ret \in {[op |-> "", out |-> Return(<<>>), buffer |-> b] : b \in ImageBuffers}

\* loadImages runs on the fetched buffer and returns the records or throws.
CallLoadImages ==
    /\ ret.op = ""
    /\ ret' = [ret EXCEPT !.op = "loadImages", !.out = loadImages(ret.buffer)]
    /\ UNCHANGED <<this, calls, server>>

NextLoadImages == CallLoadImages

SpecLoadImages == InitLoadImages /\ [][NextLoadImages]_vars

\* =============================================================== claims

IsRead(r) == r.op \in {"getTrainData", "getTestData"}

\* The collections the read that returned ret was made on.
ReadImages == Arr[this.dataset[IF ret.op = "getTrainData" THEN 1 ELSE 3]]
ReadLabels == Arr[this.dataset[IF ret.op = "getTrainData" THEN 2 ELSE 4]]

Fulfilled(c) == calls[c].pc = "fulfilled"
Rejected(c) == calls[c].pc = "rejected"
Loading(c) == calls[c].pc = "loading"

\* A call of which a load failed: a load promise is rejected, Promise.all
\* is rejected, or Promise.all holds no decoded array for one of the loads.
HasFailure(call) ==
    \/ call.pc = "rejected"
    \/ \E u \in Slots : call.loads[u].st = "rejected"
    \/ call.all.st = "rejected"
    \/ call.all.st = "fulfilled" /\ \E u \in Slots : call.all.values[u] # <<u, call.src>>

\* bits is the single-precision value nearest to num/den (0 <= num <= den <= 255):
\* with m the 24-bit significand and s the scale of bits (value m / 2^s),
\* |m * den - num * 2^s| * 2 <= den, computed in 16-bit halves of m.
NearestFloat32(bits, num, den) ==
    IF num = 0 THEN bits = 0
    ELSE LET e == bits \div Pow2(23)
             m == (bits % Pow2(23)) + Pow2(23)
             s == 150 - e
             mh == m \div 65536
             ml == m % 65536
             H == mh * den - num * Pow2(s - 16)
             D == H * 65536 + ml * den
         IN /\ e >= 119 /\ e <= 127
            /\ H >= -256 /\ H <= 0
            /\ 2 * D <= den /\ 2 * D >= -den

\* A file of 16 + 784k bytes.
WellFormedImageFile(file) ==
    Len(file) >= IMAGE_HEADER_BYTES
        /\ (Len(file) - IMAGE_HEADER_BYTES) % IMAGE_FLAT_SIZE = 0

\* images is the decoding the claim C5 describes of a well-formed file.
DecodedAsClaimed(file, images) ==
    /\ Len(images) = (Len(file) - IMAGE_HEADER_BYTES) \div IMAGE_FLAT_SIZE
    /\ \A r \in 1..Len(images) :
          /\ Len(images[r]) = IMAGE_FLAT_SIZE
          /\ \A j \in 1..IMAGE_FLAT_SIZE :
                LET byte == file[IMAGE_HEADER_BYTES + IMAGE_FLAT_SIZE * (r - 1) + j]
                IN /\ NearestFloat32(images[r][j], byte, 255)
                   /\ byte = 0 => images[r][j] = 0
                   /\ byte = 255 => images[r][j] = Float32(1, 1)

\* C5: a well-formed image file of 16 + 784k bytes decodes, whatever count
\* its header declares, to exactly k records of 784 values in file order,
\* value j of record r being byte[16 + 784r + j] / 255 in single precision
\* (0 for byte 0, 1.0 for byte 255); loadImages does not throw on such a file.
C5_WellFormedImagesDecode ==
    (ret.op = "loadImages" /\ WellFormedImageFile(ret.buffer))
        => /\ ~ret.out.threw
           /\ DecodedAsClaimed(ret.buffer, ret.out.value)

\* C5 witness: loadImages has returned MaxRecords records from a well-formed
\* file whose header declares another count and that holds bytes 0 and 255.
C5_Witness ==
    /\ ret.op = "loadImages" /\ WellFormedImageFile(ret.buffer)
    /\ ~ret.out.threw /\ Len(ret.out.value) = MaxRecords
    /\ loadHeaderValues(ret.buffer, IMAGE_HEADER_BYTES).value[2] # MaxRecords
    /\ \E i, j \in (IMAGE_HEADER_BYTES + 1)..Len(ret.buffer) :
          ret.buffer[i] = 0 /\ ret.buffer[j] = 255

\* C6: loadImages either fails with a RangeError or returns only whole
\* records whose every value comes from a byte inside the buffer: on a
\* buffer ending in a partial record it fails or drops that record, it
\* returns no record that reaches past the end or is padded.
C6_PartialRecordDroppedOrFails ==
    ret.op = "loadImages"
        => IF ret.out.threw THEN ret.out.error = "RangeError"
           ELSE /\ Len(ret.buffer) >= IMAGE_HEADER_BYTES
                /\ Len(ret.out.value)
                      = (Len(ret.buffer) - IMAGE_HEADER_BYTES) \div IMAGE_FLAT_SIZE
                /\ \A r \in 1..Len(ret.out.value) :
                      /\ Len(ret.out.value[r]) = IMAGE_FLAT_SIZE
                      /\ \A j \in 1..IMAGE_FLAT_SIZE :
                            ret.out.value[r][j] = Normalize[
                                ret.buffer[IMAGE_HEADER_BYTES + IMAGE_FLAT_SIZE * (r - 1) + j]]

\* C6 witness: loadImages has run on a buffer that holds a whole record
\* followed by a partial one, and has thrown.
C6_Witness ==
    /\ ret.op = "loadImages"
    /\ Len(ret.buffer) > IMAGE_HEADER_BYTES + IMAGE_FLAT_SIZE
    /\ (Len(ret.buffer) - IMAGE_HEADER_BYTES) % IMAGE_FLAT_SIZE # 0
    /\ ret.out.threw

\* The step is the commit of call c: loadData resumes on a fulfilled
\* Promise.all that holds the decoded array of each of the four loads.
CommitsAllFour(c) ==
    /\ calls[c].pc = "settled" /\ calls'[c].pc = "fulfilled"
    /\ calls[c].all.st = "fulfilled"
    /\ calls[c].all.values = [u \in Slots |-> <<u, calls[c].src>>]
    /\ \A u \in Slots : ~Decoded[calls[c].src][u].threw

\* C1: every step of a loadData call (its start, each load settling, in any
\* order, before or after a failing one, Promise.all reacting, loadData
\* resuming) leaves the MnistDataset and what getTrainData / getTestData
\* return as they were, except the one step that commits four successful
\* loads; and a call of which a load failed never fulfils.  A call that
\* rejects has therefore written nothing from its start to its rejection.
C1_FailedLoadLeavesDataset ==
    [][\A c \in Calls :
          calls'[c] # calls[c]
              => /\ (HasFailure(calls[c]) \/ HasFailure(calls'[c]))
                       => calls'[c].pc # "fulfilled"
                 /\ ~CommitsAllFour(c)
                       => /\ this' = this
                          /\ getTrainData(this').ret = getTrainData(this).ret
                          /\ getTestData(this').ret = getTestData(this).ret]_vars

\* C1 witness: a call has rejected after an earlier call had committed
\* records, which the object still holds.
C1_Witness ==
    \E c, d \in Calls :
        /\ Rejected(c) /\ Fulfilled(d) /\ d < c
        /\ this.dataset = [u \in Slots |-> <<u, calls[d].src>>]
        /\ this.trainSize > 0

\* C2 (as claimed): after a successful load each split holds as many label
\* records as image records.
C2_CountsMatchAfterLoad ==
    (\E c \in Calls : Fulfilled(c))
        => /\ Len(Arr[this.dataset[1]]) = Len(Arr[this.dataset[2]])
           /\ Len(Arr[this.dataset[3]]) = Len(Arr[this.dataset[4]])

\* The one-hot rows of ys for the labels: row i has a single 1.0, at column
\* labels[i], and 0.0 elsewhere.
OneHotRows(ys, labels) ==
    \A i \in 1..Len(labels) :
        /\ labels[i][1] \in 0..(LABEL_FLAT_SIZE - 1)
        /\ \A k \in 0..(LABEL_FLAT_SIZE - 1) :
              ys.values[(i - 1) * LABEL_FLAT_SIZE + k + 1]
                  = IF k = labels[i][1] THEN Float32(1, 1) ELSE 0

\* C3 (as claimed): a read of a split of k records that returns gives an
\* image buffer of k * 784 values, record i at offsets [784i, 784(i+1)) in
\* decode order, and a label buffer of k * 10 values whose every row holds a
\* single 1 at the record's label.
C3_SplitLayout ==
    (IsRead(ret) /\ ~ret.out.threw)
        => LET k == Len(ReadImages)
               xs == ret.out.value.xs
               ys == ret.out.value.ys
           IN /\ xs.shape = <<k, IMAGE_HEIGHT, IMAGE_WIDTH, 1>>
              /\ Len(xs.values) = k * IMAGE_FLAT_SIZE
              /\ \A i \in 1..k : \A j \in 1..IMAGE_FLAT_SIZE :
                    xs.values[(i - 1) * IMAGE_FLAT_SIZE + j] = ReadImages[i][j]
              /\ ys.shape = <<k, LABEL_FLAT_SIZE>>
              /\ Len(ys.values) = k * LABEL_FLAT_SIZE
              /\ OneHotRows(ys, SubSeq(ReadLabels, 1, k))

\* C4 (as claimed): a read of a split holding a label outside [0, 10) reports
\* an error.
C4_LabelOutOfRangeRejected ==
    (IsRead(ret) /\ \E i \in 1..Len(ReadImages) :
                        i <= Len(ReadLabels)
                            /\ ReadLabels[i][1] \notin 0..(LABEL_FLAT_SIZE - 1))
        => ret.out.threw

\* C7: getTrainData / getTestData change nothing: the object (collections,
\* sizes, batch indices), the loads in flight and the server are as before,
\* and a read that follows a read of the same split returns the same buffers.
C7_ReadIsPure ==
    [][IsRead(ret')
          => /\ this' = this
             /\ calls' = calls
             /\ server' = server
             /\ (ret.op = ret'.op => ret'.out = ret.out)]_vars

\* C7 witness: a read returned records while a later load was in flight.
C7_Witness ==
    /\ IsRead(ret) /\ ~ret.out.threw
    /\ Len(ret.out.value.xs.values) > 0
    /\ \E c \in Calls : Loading(c) /\ \E u \in Slots : calls[c].loads[u].st = "fulfilled"

EmptyShaped ==
    [xs |-> [shape |-> <<0, IMAGE_HEIGHT, IMAGE_WIDTH, 1>>, values |-> <<>>],
     ys |-> [shape |-> <<0, LABEL_FLAT_SIZE>>, values |-> <<>>]]

\* C8: as long as no loadData call has fulfilled, a read returns the empty
\* result, shapes [0, 28, 28, 1] and [0, 10], and no record of a load in
\* flight.
C8_ReadBeforeLoadIsEmpty ==
    (IsRead(ret) /\ \A c \in Calls : ~Fulfilled(c))
        => /\ ~ret.out.threw
           /\ ret.out.value = EmptyShaped

\* C8 witness: a read made when all four loads of a first call have returned
\* records and Promise.all has fulfilled, but loadData has not resumed yet.
C8_Witness ==
    /\ IsRead(ret)
    /\ \A c \in Calls : ~Fulfilled(c)
    /\ \E c \in Calls :
          /\ calls[c].pc = "settled" /\ calls[c].all.st = "fulfilled"
          /\ \E u \in Slots : Len(Arr[calls[c].all.values[u]]) > 0

\* C9: the object holds either the constructor's empty collections or all
\* four results of one fulfilled call, never results of some loads only; and
\* a call fulfils only when all four of its loads succeeded.
C9_AllFourOrNothing ==
    /\ \/ this.dataset = MnistDataset.dataset
       \/ \E c \in Calls :
             Fulfilled(c) /\ this.dataset = [u \in Slots |-> <<u, calls[c].src>>]
    /\ \A c \in Calls :
          Fulfilled(c) => /\ \A u \in Slots : ~Decoded[calls[c].src][u].threw
                          /\ calls[c].all.st = "fulfilled"
                          /\ calls[c].all.values = [u \in Slots |-> <<u, calls[c].src>>]
    /\ \A c \in Calls : Rejected(c) => calls[c].all.st = "rejected"
    /\ \A c \in Calls :
          calls[c].all.st = "fulfilled"
              => calls[c].all.values = [u \in Slots |-> <<u, calls[c].src>>]

\* C9 witness: a second call, on another version, has some loads fulfilled
\* and some pending while the object holds the first call's four results.
C9_Witness ==
    \E c, d \in Calls :
        /\ Fulfilled(d) /\ Loading(c) /\ calls[c].src # calls[d].src
        /\ \E u, w \in Slots :
              calls[c].loads[u].st = "fulfilled" /\ calls[c].loads[w].st = "pending"
        /\ this.dataset = [u \in Slots |-> <<u, calls[d].src>>]

\* C10: in every state trainSize is the number of train image records held
\* and testSize the number of test image records held.
C10_SizesMatchCollections ==
    /\ this.trainSize = Len(Arr[this.dataset[1]])
    /\ this.testSize = Len(Arr[this.dataset[3]])

\* C10 witness: two calls have fulfilled on different versions (a repeated
\* load), and the object holds splits of different, non-zero sizes.
C10_Witness ==
    /\ \E c, d \in Calls : Fulfilled(c) /\ Fulfilled(d) /\ calls[c].src # calls[d].src
    /\ this.trainSize > 0 /\ this.testSize > 0
    /\ this.trainSize # this.testSize
    /\ Len(Arr[this.dataset[2]]) # this.trainSize

====
